---- MODULE Spec2Model ----
(***************************************************************************)
(* Model of the two utilities of main.ipynb that carry a contract:         *)
(*   - get_token_embeddings: the left-to-right sweep that merges wordpiece *)
(*     embeddings into one embedding per whitespace-delimited token;       *)
(*   - PRFScore: precision / recall / f1 under an averaging mode.          *)
(* Tensor entries are modelled as exact rationals extended with nan and    *)
(* +inf (float rounding is not modelled).  An embedding row is modelled by *)
(* one of its columns: torch.mean(.., 0) and row selection act on every    *)
(* column independently.                                                   *)
(***************************************************************************)
EXTENDS Integers, Sequences, FiniteSets, TLC

\* ------------------------------------------------------------ bounds
\* longest source string, in characters
MaxLen == 5
\* largest number of wordpieces the tokenizer returns
MaxWp == 4
\* largest entry of a wordpiece embedding (entries are 1..MaxEmb)
MaxEmb == 2
\* number of classes: labels and predictions take values in 0..NumClasses-1
NumClasses == 3
\* longest labels / predictions tensor
MaxSamples == 3

\* ------------------------------------------------- float arithmetic
RECURSIVE Gcd(_, _)
Gcd(a, b) == IF b = 0 THEN a ELSE Gcd(b, a % b)

Abs(x) == IF x < 0 THEN -x ELSE x

\* a float value: finite n/d in lowest terms (d > 0), nan, or +inf
NaN == [k |-> "nan", n |-> 0, d |-> 1]
Inf == [k |-> "inf", n |-> 1, d |-> 1]
Fin(n, d) ==
    LET g == Gcd(Abs(n), d)
    IN  [k |-> "fin", n |-> n \div g, d |-> d \div g]
Zero == Fin(0, 1)
IsNaN(x) == x.k = "nan"

\* only values >= 0 arise in this program, so inf is always +inf
FAdd(x, y) ==
    IF x.k = "nan" \/ y.k = "nan" THEN NaN
    ELSE IF x.k = "inf" \/ y.k = "inf" THEN Inf
    ELSE Fin(x.n * y.d + y.n * x.d, x.d * y.d)

FMul(x, y) ==
    IF x.k = "nan" \/ y.k = "nan" THEN NaN
    ELSE IF x.k = "inf" THEN (IF y.k = "fin" /\ y.n = 0 THEN NaN ELSE Inf)
    ELSE IF y.k = "inf" THEN (IF x.n = 0 THEN NaN ELSE Inf)
    ELSE Fin(x.n * y.n, x.d * y.d)

FDiv(x, y) ==
    IF x.k = "nan" \/ y.k = "nan" THEN NaN
    ELSE IF x.k = "inf" THEN (IF y.k = "inf" THEN NaN ELSE Inf)
    ELSE IF y.k = "inf" THEN Zero
    ELSE IF y.n = 0 THEN (IF x.n = 0 THEN NaN ELSE Inf)
    ELSE Fin(x.n * y.d, x.d * y.n)

\* ------------------------------------------------------- aggregator
VARIABLES
    string,          \* the source string, a sequence of characters
    wp_spans,        \* inputs.token_to_chars(i) for every wordpiece i
    wp_e,            \* the wordpiece embeddings, one entry per wordpiece
    merge_strategy,  \* the merge_strategy argument
    token_spans,     \* what the span_tokenize generator has yet to yield
    t_span,          \* the current token span
    i,               \* the loop index (1-based), Len(wp_e)+1 after the loop
    stack,           \* indices of the wordpieces of the current token
    result,          \* the token embeddings appended so far
    groups,          \* history: for every row of result, the stack merged into it
    pc,              \* "start", "loop", "returned", "raised"
    err              \* the exception raised, "" if none

aggVars == <<string, wp_spans, wp_e, merge_strategy, token_spans, t_span,
             i, stack, result, groups, pc, err>>

VARIABLES
    average,      \* self.average ("None" stands for None), "" before __init__
    pos_label,    \* self.pos_label
    called,       \* which operation ran: "", "__init__", "__call__",
                  \* "calc_prf_count_for_label"
    labels,       \* the labels argument, a tensor [dim, vals]
    predictions,  \* the predictions argument, a tensor [dim, vals]
    label_id,     \* the label_id argument of calc_prf_count_for_label
    out,          \* the returned tuple of tensors
    prf_pc,       \* "new", "ready", "returned", "raised"
    prf_err       \* the exception raised, "" if none

prfVars == <<average, pos_label, called, labels, predictions, label_id, out,
             prf_pc, prf_err>>
vars == <<aggVars, prfVars>>

Chars == {"a", " "}
Strategies == {"average", "first", "max"}

RECURSIVE Strings(_)
Strings(n) ==
    IF n = 0 THEN {<<>>}
    ELSE LET shorter == Strings(n - 1)
         IN  shorter \cup {Append(s, c) : s \in {t \in shorter : Len(t) = n - 1},
                                          c \in Chars}

\* wordpiece spans as a tokenizer yields them: non-empty slices of the
\* string, left to right, not overlapping; at most n of them from lo on.
\* A span may cross a blank or skip a word, so that misaligned inputs occur.
RECURSIVE SpanSeqs(_, _, _)
SpanSeqs(lo, L, n) ==
    {<<>>} \cup
    (IF n = 0 THEN {}
     ELSE UNION {{<<sp>> \o rest : rest \in SpanSeqs(sp[2], L, n - 1)} :
                 sp \in {q \in (lo..L) \X (lo..L) : q[1] < q[2]}})

\* nltk WhitespaceTokenizer.span_tokenize: the spans of the maximal runs of
\* non-whitespace characters, as half-open (start, end) offsets, in order
RECURSIVE regexp_span_tokenize(_, _, _)
regexp_span_tokenize(s, pos, left) ==
    \* pos: 0-based offset being read; left: start of the open run, -1 if none
    IF pos = Len(s)
    THEN IF left >= 0 THEN <<(<<left, pos>>)>> ELSE <<>>
    ELSE IF s[pos + 1] = " "
         THEN (IF left >= 0 THEN <<(<<left, pos>>)>> ELSE <<>>)
              \o regexp_span_tokenize(s, pos + 1, -1)
         ELSE regexp_span_tokenize(s, pos + 1, IF left >= 0 THEN left ELSE pos)

span_tokenize(s) == regexp_span_tokenize(s, 0, -1)

\* len(string.split()): the number of whitespace-delimited words, counted
\* as the positions where a word starts
split_len(s) ==
    Cardinality({p \in 1..Len(s) : s[p] # " " /\ (p = 1 \/ s[p - 1] = " ")})

is_subspanStrict(subspan, span) ==
    subspan[1] > span[1] /\ subspan[2] < span[2]

is_subspan(subspan, span) ==
    subspan[1] >= span[1] /\ subspan[2] <= span[2]

RECURSIVE SumIdx(_, _)
SumIdx(e, idx) ==
    IF idx = <<>> THEN Zero
    ELSE FAdd(Fin(e[Head(idx)], 1), SumIdx(e, Tail(idx)))

torch_meanOffByOne(e, idx) == FDiv(SumIdx(e, idx), Fin(Len(idx) + 1, 1))

\* torch.mean(wp_e[stack], 0): nan for an empty selection
torch_mean(e, idx) == FDiv(SumIdx(e, idx), Fin(Len(idx), 1))

\* _merge_embeddings: ok and the merged value val, or the exception exc
_merge_embeddingsLast(strategy, e, stk) ==
    IF strategy = "average"
    THEN [ok |-> TRUE, exc |-> "", val |-> torch_mean(e, stk)]
    ELSE IF strategy = "first"
    THEN IF stk = <<>>
         THEN [ok |-> FALSE, exc |-> "IndexError", val |-> NaN]
         ELSE [ok |-> TRUE, exc |-> "", val |-> Fin(e[stk[Len(stk)]], 1)]
    ELSE [ok |-> FALSE, exc |-> "NotImplementedError", val |-> NaN]

_merge_embeddingsFallback(strategy, e, stk) ==
    IF strategy = "first"
    THEN IF stk = <<>>
         THEN [ok |-> FALSE, exc |-> "IndexError", val |-> NaN]
         ELSE [ok |-> TRUE, exc |-> "", val |-> Fin(e[stk[1]], 1)]
    ELSE [ok |-> TRUE, exc |-> "", val |-> torch_mean(e, stk)]

_merge_embeddings(strategy, e, stk) ==
    IF strategy = "average"
    THEN [ok |-> TRUE, exc |-> "", val |-> torch_mean(e, stk)]
    ELSE IF strategy = "first"
    THEN IF stk = <<>>
         THEN [ok |-> FALSE, exc |-> "IndexError", val |-> NaN]
         ELSE [ok |-> TRUE, exc |-> "", val |-> Fin(e[stk[1]], 1)]
    ELSE [ok |-> FALSE, exc |-> "NotImplementedError", val |-> NaN]

alignment_assertStripped(wp_span, span) == TRUE

\* line 390: assert is_subspan(wp_span, t_span), after the advance
alignment_assert(wp_span, span) == is_subspan(wp_span, span)

Raise(e) == pc' = "raised" /\ err' = e

AggInit ==
    /\ string \in Strings(MaxLen)
    /\ wp_spans \in SpanSeqs(0, Len(string), MaxWp)
    /\ wp_e \in [1..Len(wp_spans) -> 1..MaxEmb]
    /\ merge_strategy \in Strategies
    /\ token_spans = <<>>
    /\ t_span = <<0, 0>>
    /\ i = 0
    /\ stack = <<>>
    /\ result = <<>>
    /\ groups = <<>>
    /\ pc = "start"
    /\ err = ""

\* lines 371-381: tokenize, embed, create the generator, take the first span
Begin ==
    /\ pc = "start"
    /\ result' = <<>>
    /\ groups' = <<>>
    /\ stack' = <<>>
    /\ i' = 1
    /\ LET spans == span_tokenize(string)
       IN  IF spans = <<>>
           THEN /\ Raise("StopIteration")
                /\ token_spans' = <<>>
                /\ UNCHANGED t_span
           ELSE /\ t_span' = Head(spans)
                /\ token_spans' = Tail(spans)
                /\ pc' = "loop"
                /\ UNCHANGED err
    /\ UNCHANGED <<string, wp_spans, wp_e, merge_strategy>>
    /\ UNCHANGED prfVars

\* lines 382-391: one iteration of the for loop
Step ==
    /\ pc = "loop"
    /\ i <= Len(wp_e)
    /\ LET wp_span == wp_spans[i]
           m == _merge_embeddings(merge_strategy, wp_e, stack)
       IN  IF is_subspan(wp_span, t_span)
           THEN /\ stack' = Append(stack, i)
                /\ i' = i + 1
                /\ UNCHANGED <<result, groups, token_spans, t_span, pc, err>>
           ELSE IF ~m.ok
           THEN /\ Raise(m.exc)
                /\ UNCHANGED <<result, groups, token_spans, t_span, stack, i>>
           ELSE IF token_spans = <<>>
           THEN /\ Raise("StopIteration")
                /\ result' = Append(result, m.val)
                /\ groups' = Append(groups, stack)
                /\ UNCHANGED <<token_spans, t_span, stack, i>>
           ELSE IF ~alignment_assert(wp_span, Head(token_spans))
           THEN /\ Raise("AssertionError")
                /\ result' = Append(result, m.val)
                /\ groups' = Append(groups, stack)
                /\ t_span' = Head(token_spans)
                /\ token_spans' = Tail(token_spans)
                /\ UNCHANGED <<stack, i>>
           ELSE /\ result' = Append(result, m.val)
                /\ groups' = Append(groups, stack)
                /\ t_span' = Head(token_spans)
                /\ token_spans' = Tail(token_spans)
                /\ stack' = <<i>>
                /\ i' = i + 1
                /\ UNCHANGED <<pc, err>>
    /\ UNCHANGED <<string, wp_spans, wp_e, merge_strategy>>
    /\ UNCHANGED prfVars

\* lines 393-399: merge what is left, stack the rows, check the length
Finish ==
    /\ pc = "loop"
    /\ i > Len(wp_e)
    /\ LET m == _merge_embeddings(merge_strategy, wp_e, stack)
       IN  IF ~m.ok
           THEN /\ Raise(m.exc)
                /\ UNCHANGED <<result, groups>>
           ELSE /\ result' = Append(result, m.val)
                /\ groups' = Append(groups, stack)
                /\ IF Len(result) + 1 = split_len(string)
                   THEN pc' = "returned" /\ UNCHANGED err
                   ELSE Raise("AssertionError")
    /\ UNCHANGED <<string, wp_spans, wp_e, merge_strategy, token_spans,
                   t_span, stack, i>>
    /\ UNCHANGED prfVars

get_token_embeddings == Begin \/ Step \/ Finish

\* ----------------------------------------------------------- PRFScore
Classes == 0..(NumClasses - 1)
Averages == {"None", "micro", "macro", "weighted", "binary"}

RECURSIVE SeqsUpTo(_, _)
SeqsUpTo(S, n) ==
    IF n = 0 THEN {<<>>}
    ELSE LET shorter == SeqsUpTo(S, n - 1)
         IN  shorter \cup {Append(v, c) : v \in {t \in shorter : Len(t) = n - 1},
                                          c \in S}

Tensor(d, v) == [dim |-> d, vals |-> v]
Scalar(x) == Tensor(0, <<x>>)
\* one-dimensional tensors of every length
Tensors1D == {Tensor(1, v) : v \in SeqsUpTo(Classes, MaxSamples)}
\* tensors that are not one-dimensional: a 0-dim scalar, a 1x1 matrix
TensorsOther == {Tensor(d, <<c>>) : d \in {0, 2}, c \in Classes}

\* torch broadcasting of two 1-D tensors of lengths n and m
Broadcastable(n, m) == n = m \/ n = 1 \/ m = 1
BLen(n, m) == IF n = 1 THEN m ELSE n
At(v, j) == IF Len(v) = 1 THEN v[1] ELSE v[j]

\* torch.eq(v, x).sum()
eq_sum(v, x) == Cardinality({j \in 1..Len(v) : v[j] = x})
\* len(labels.unique())
unique_len(v) == Cardinality({v[j] : j \in 1..Len(v)})

NanToZero(x) == IF IsNaN(x) THEN Zero ELSE x

Ok3(p, r, f) == [ok |-> TRUE, exc |-> "", p |-> p, r |-> r, f1 |-> f, true_count |-> 0]
Fail(e) == [ok |-> FALSE, exc |-> e, p |-> NaN, r |-> NaN, f1 |-> NaN, true_count |-> 0]

\* a variant that divides by the number of distinct labels
calc_f1_microPerClass(preds, labs) ==
    IF ~Broadcastable(Len(labs), Len(preds)) THEN Fail("RuntimeError")
    ELSE LET n == BLen(Len(labs), Len(preds))
             true_positive ==
                 Cardinality({j \in 1..n : At(labs, j) = At(preds, j)})
             f1_score == FDiv(Fin(true_positive, 1), Fin(unique_len(labs), 1))
         IN  Ok3(f1_score, f1_score, f1_score)

\* calc_f1_micro(predictions, labels), lines 120-133
calc_f1_micro(preds, labs) ==
    IF ~Broadcastable(Len(labs), Len(preds)) THEN Fail("RuntimeError")
    ELSE LET n == BLen(Len(labs), Len(preds))
             true_positive ==
                 Cardinality({j \in 1..n : At(labs, j) = At(preds, j)})
             f1_score == FDiv(Fin(true_positive, 1), Fin(Len(labs), 1))
         IN  Ok3(f1_score, f1_score, f1_score)

\* calc_prf_count_for_label(labels, predictions, label_id), lines 136-167
calc_prf_count_for_label(labs, preds, id) ==
    IF ~Broadcastable(Len(labs), Len(preds)) THEN Fail("RuntimeError")
    ELSE LET n == BLen(Len(labs), Len(preds))
             true_count == eq_sum(labs, id)
             true_positive ==
                 Cardinality({j \in 1..n : At(labs, j) = At(preds, j)
                                           /\ At(labs, j) = id})
             precision ==
                 NanToZero(FDiv(Fin(true_positive, 1), Fin(eq_sum(preds, id), 1)))
             recall == FDiv(Fin(true_positive, 1), Fin(true_count, 1))
             f1 == NanToZero(FDiv(FMul(FMul(Fin(2, 1), precision), recall),
                                  FAdd(precision, recall)))
         IN  [ok |-> TRUE, exc |-> "", p |-> precision, r |-> recall,
              f1 |-> f1, true_count |-> true_count]

\* lines 190-197: the loop over label_id in range(from, len(labels.unique())),
\* adding to scores; avg is self.average
RECURSIVE score_loop(_, _, _, _, _)
score_loop(avg, labs, preds, id, scores) ==
    IF id >= unique_len(labs) THEN scores
    ELSE LET c == calc_prf_count_for_label(labs, preds, id)
             w == Fin(c.true_count, 1)
         IN  IF ~c.ok THEN Fail(c.exc)
             ELSE score_loop(avg, labs, preds, id + 1,
                   IF avg = "weighted"
                   THEN Ok3(FAdd(scores.p, FMul(c.p, w)),
                            FAdd(scores.r, FMul(c.r, w)),
                            FAdd(scores.f1, FMul(c.f1, w)))
                   ELSE IF avg = "macro"
                   THEN Ok3(FAdd(scores.p, c.p), FAdd(scores.r, c.r),
                            FAdd(scores.f1, c.f1))
                   ELSE scores)

\* PRFScore.__call__(labels, predictions), lines 169-204
call(avg, pos, labs, preds) ==
    IF labs.dim # 1 \/ preds.dim # 1 THEN Fail("AssertionError")
    ELSE IF avg = "micro" THEN calc_f1_micro(labs.vals, preds.vals)
    ELSE IF avg = "binary"
    THEN calc_prf_count_for_label(labs.vals, preds.vals, pos)
    ELSE LET scores == score_loop(avg, labs.vals, preds.vals, 0,
                                  Ok3(Zero, Zero, Zero))
             den == IF avg = "weighted" THEN Fin(Len(labs.vals), 1)
                    ELSE Fin(unique_len(labs.vals), 1)
         IN  IF ~scores.ok \/ avg \notin {"weighted", "macro"} THEN scores
             ELSE Ok3(FDiv(scores.p, den), FDiv(scores.r, den),
                      FDiv(scores.f1, den))

PRFInit ==
    /\ average = ""
    /\ pos_label = 0
    /\ called = ""
    /\ labels = Tensor(1, <<>>)
    /\ predictions = Tensor(1, <<>>)
    /\ label_id = 0
    /\ out = <<>>
    /\ prf_pc = "new"
    /\ prf_err = ""

\* PRFScore.__init__(average, pos_label), lines 107-117
Construct ==
    /\ prf_pc = "new"
    /\ \E avg \in Averages \cup {"samples"}, pos \in Classes :
          /\ average' = avg
          /\ pos_label' = pos
          /\ IF avg \notin Averages
             THEN prf_pc' = "raised" /\ prf_err' = "ValueError"
             ELSE prf_pc' = "ready" /\ UNCHANGED prf_err
    /\ called' = "__init__"
    /\ UNCHANGED <<labels, predictions, label_id, out>>
    /\ UNCHANGED aggVars

\* a call of the scorer: PRFScore(average, pos_label)(labels, predictions)
Call ==
    /\ prf_pc = "ready"
    /\ \E labs \in Tensors1D \cup TensorsOther,
          preds \in Tensors1D \cup TensorsOther :
          \E c \in {call(average, pos_label, labs, preds)} :
              /\ labels' = labs
              /\ predictions' = preds
              /\ IF c.ok
                 THEN /\ out' = <<Scalar(c.p), Scalar(c.r), Scalar(c.f1)>>
                      /\ prf_pc' = "returned"
                      /\ UNCHANGED prf_err
                 ELSE /\ prf_pc' = "raised"
                      /\ prf_err' = c.exc
                      /\ UNCHANGED out
    /\ called' = "__call__"
    /\ UNCHANGED <<average, pos_label, label_id>>
    /\ UNCHANGED aggVars

\* a direct call of the static method on one-dimensional tensors
CallForLabel ==
    /\ prf_pc = "new"
    /\ \E labs \in Tensors1D, preds \in Tensors1D, id \in Classes :
          \E c \in {calc_prf_count_for_label(labs.vals, preds.vals, id)} :
              /\ labels' = labs
              /\ predictions' = preds
              /\ label_id' = id
              /\ IF c.ok
                 THEN /\ out' = <<Scalar(c.p), Scalar(c.r), Scalar(c.f1),
                                  Scalar(Fin(c.true_count, 1))>>
                      /\ prf_pc' = "returned"
                      /\ UNCHANGED prf_err
                 ELSE /\ prf_pc' = "raised"
                      /\ prf_err' = c.exc
                      /\ UNCHANGED out
    /\ called' = "calc_prf_count_for_label"
    /\ UNCHANGED <<average, pos_label>>
    /\ UNCHANGED aggVars

PRFScore == Construct \/ Call \/ CallForLabel

\* ------------------------------------------------------ specifications
\* the aggregator: one call of get_token_embeddings on any input
Init ==
    /\ AggInit
    /\ PRFInit
Spec == Init /\ [][get_token_embeddings]_vars

\* the scorer: a construction and a call, or a call of the static method
InitPRF ==
    /\ string = <<>> /\ wp_spans = <<>> /\ wp_e = <<>>
    /\ merge_strategy = "average" /\ token_spans = <<>> /\ t_span = <<0, 0>>
    /\ i = 0 /\ stack = <<>> /\ result = <<>> /\ groups = <<>>
    /\ pc = "idle" /\ err = ""
    /\ PRFInit
SpecPRF == InitPRF /\ [][PRFScore]_vars

\* ----------------------------------------- aggregator: the claims
\* The reference notions below are stated on the inputs alone, without the
\* operators of the sweep.
Returned == pc = "returned"
Raised == pc = "raised"
Supported == merge_strategy \in {"average", "first"}

\* the word spans of the string: the maximal runs of non-blank characters,
\* as half-open (start, end) offsets
WordStarts ==
    {a \in 0..(Len(string) - 1) :
        string[a + 1] # " " /\ (a = 0 \/ string[a] = " ")}
WordEnd(a) ==
    CHOOSE b \in (a + 1)..Len(string) :
        /\ \A q \in (a + 1)..b : string[q] # " "
        /\ b = Len(string) \/ string[b + 1] = " "
WordSpans == {<<a, WordEnd(a)>> : a \in WordStarts}
NumWords == Cardinality(WordSpans)
\* the j-th word span, left to right
Word(j) ==
    CHOOSE w \in WordSpans : Cardinality({v \in WordSpans : v[1] < w[1]}) = j - 1
Contained(sp, w) == w[1] <= sp[1] /\ sp[2] <= w[2]
\* the wordpieces whose span lies inside the j-th word span
Group(j) == {k \in 1..Len(wp_spans) : Contained(wp_spans[k], Word(j))}
MinOf(S) == CHOOSE x \in S : \A y \in S : x <= y
RECURSIVE SumOver(_)
SumOver(S) ==
    IF S = {} THEN 0 ELSE LET x == MinOf(S) IN wp_e[x] + SumOver(S \ {x})

\* every wordpiece span lies in exactly one word span, left to right
ValidTokenization ==
    /\ \A k \in 1..Len(wp_spans) :
          Cardinality({w \in WordSpans : Contained(wp_spans[k], w)}) = 1
    /\ \A k \in 1..(Len(wp_spans) - 1) : wp_spans[k][1] <= wp_spans[k + 1][1]
\* every word span holds at least one wordpiece
Covering == \A j \in 1..NumWords : Group(j) # {}

\* C1 as stated: for every string and every valid tokenization of it, under
\* either strategy, the call returns a sequence of len(string.split()) rows.
C1_Original ==
    (pc \in {"returned", "raised"} /\ ValidTokenization /\ Supported)
        => (Returned /\ Len(result) = NumWords)

\* C1 amended: when the string has at least one word and the valid
\* tokenization leaves no word without a wordpiece, the call returns, under
\* either strategy, exactly one row per word; and no call ever returns a
\* sequence of another length.
C1_Coverage ==
    /\ (pc \in {"returned", "raised"} /\ ValidTokenization /\ Covering
            /\ NumWords >= 1 /\ Supported)
        => (Returned /\ Len(result) = NumWords)
    /\ Returned => Len(result) = NumWords

C1_Witness ==
    /\ Returned /\ ValidTokenization /\ Covering
    /\ NumWords >= 2 /\ Len(wp_spans) > NumWords

\* C2: in a returned result the j-th row is the merge of exactly the
\* wordpieces whose span lies in the j-th word span: their mean under
\* "average", the lowest-index one under "first".
C2_Aggregation ==
    (Returned /\ ValidTokenization) =>
        /\ Len(result) = NumWords
        /\ \A j \in 1..NumWords :
              Group(j) # {} =>
                  result[j] = IF merge_strategy = "average"
                              THEN Fin(SumOver(Group(j)), Cardinality(Group(j)))
                              ELSE Fin(wp_e[MinOf(Group(j))], 1)

C2_Witness ==
    /\ Returned /\ merge_strategy = "average" /\ NumWords >= 2
    /\ ValidTokenization /\ Covering
    /\ \E j \in 1..NumWords :
          /\ Cardinality(Group(j)) = 3
          /\ result[j].d = 3

\* the sweep is at a wordpiece that lies neither in the current word span
\* nor in the one that follows it
Offending ==
    /\ pc = "loop" /\ i <= Len(wp_spans) /\ Supported
    /\ ~Contained(wp_spans[i], t_span)
    /\ token_spans = <<>> \/ ~Contained(wp_spans[i], Head(token_spans))

\* C3 as stated: at such a wordpiece the call fails with the alignment
\* assertion, wherever the wordpiece is and under both strategies.
C3_Original ==
    [][Offending => (pc' = "raised" /\ err' = "AssertionError")]_aggVars

\* C3 amended: at such a wordpiece the call fails and returns nothing; the
\* failure is the alignment assertion when a next word span exists, it is
\* StopIteration when the current word is the last one, and it is IndexError
\* when the strategy is "first" and no wordpiece has been buffered yet.
C3_AlignmentFailure ==
    [][Offending =>
          /\ pc' = "raised"
          /\ err' = IF merge_strategy = "first" /\ stack = <<>>
                        THEN "IndexError"
                    ELSE IF token_spans = <<>> THEN "StopIteration"
                    ELSE "AssertionError"]_aggVars

C3_Witness ==
    /\ Raised /\ err = "AssertionError" /\ i <= Len(wp_spans)
    /\ NumWords >= 2
    /\ \A w \in WordSpans : ~Contained(wp_spans[i], w)
    /\ \E w \in WordSpans : w[1] < wp_spans[i][2] /\ wp_spans[i][1] < w[1]

\* C4 as stated: with an unsupported strategy every call fails with
\* NotImplementedError, whatever the string and the wordpieces are.
C4_Original ==
    (pc \in {"returned", "raised"} /\ ~Supported)
        => (Raised /\ err = "NotImplementedError")

\* C4 amended: with an unsupported strategy every call on a string that has
\* at least one word fails with NotImplementedError, aligned or not, and
\* returns nothing; on a string without a word it fails with StopIteration.
C4_Unsupported ==
    (pc \in {"returned", "raised"} /\ ~Supported)
        => /\ Raised
           /\ err = IF NumWords >= 1 THEN "NotImplementedError"
                    ELSE "StopIteration"

C4_Witness ==
    /\ Raised /\ err = "NotImplementedError" /\ ~Supported
    /\ ~ValidTokenization /\ Len(wp_spans) >= 2

\* C10: in a returned result a word whose span holds exactly one wordpiece
\* gets that wordpiece's embedding unchanged, under "average" and "first".
C10_SingleSubword ==
    (Returned /\ ValidTokenization) =>
        /\ Len(result) = NumWords
        /\ \A j \in 1..NumWords :
              Cardinality(Group(j)) = 1 =>
                  result[j] = Fin(wp_e[MinOf(Group(j))], 1)

C10_Witness ==
    /\ Returned /\ merge_strategy = "average"
    /\ \E j \in 1..NumWords : Cardinality(Group(j)) = 1 /\ wp_e[MinOf(Group(j))] = 2
    /\ \E j \in 1..NumWords : Cardinality(Group(j)) >= 2

\* --------------------------------------------- PRFScore: the claims
\* The standard definitions, stated on the inputs alone.
EqualLen1D ==
    /\ labels.dim = 1 /\ predictions.dim = 1
    /\ Len(labels.vals) = Len(predictions.vals)
Samples == 1..Len(labels.vals)
Support(l) == Cardinality({j \in Samples : labels.vals[j] = l})
Predicted(l) == Cardinality({j \in Samples : predictions.vals[j] = l})
TruePos(l) ==
    Cardinality({j \in Samples : labels.vals[j] = l /\ predictions.vals[j] = l})
RefPrecision(l) == IF Predicted(l) = 0 THEN Zero ELSE Fin(TruePos(l), Predicted(l))
RefRecall(l) == IF Support(l) = 0 THEN Zero ELSE Fin(TruePos(l), Support(l))
RefF1(l) ==
    IF TruePos(l) = 0 THEN Zero ELSE Fin(2 * TruePos(l), Predicted(l) + Support(l))
RefMetric(c, l) ==
    IF c = 1 THEN RefPrecision(l) ELSE IF c = 2 THEN RefRecall(l) ELSE RefF1(l)
\* the distinct values of labels; those of labels and predictions together
LabelsPresent == {labels.vals[j] : j \in Samples}
ClassesPresent == LabelsPresent \cup {predictions.vals[j] : j \in Samples}
\* the sum over the labels of S of weight * metric c
RECURSIVE RefSum(_, _, _)
RefSum(c, S, weighted) ==
    IF S = {} THEN Zero
    ELSE LET l == CHOOSE x \in S : TRUE
         IN  FAdd(FMul(RefMetric(c, l), Fin(IF weighted THEN Support(l) ELSE 1, 1)),
                  RefSum(c, S \ {l}, weighted))
RefMacro(c, S) == FDiv(RefSum(c, S, FALSE), Fin(Cardinality(S), 1))
RefWeighted(c, S) == FDiv(RefSum(c, S, TRUE), Fin(Len(labels.vals), 1))
\* the k-th smallest label present in labels
LabelAt(k) ==
    CHOOSE l \in LabelsPresent : Cardinality({x \in LabelsPresent : x < l}) = k - 1
CallReturned == called = "__call__" /\ prf_pc = "returned"

\* C5: calc_prf_count_for_label returns precision 0 when nothing is
\* predicted as label_id, recall 0 when the support is 0, f1 0 when
\* precision + recall is 0, and never a nan.
C5_ZeroDenominator ==
    (called = "calc_prf_count_for_label" /\ prf_pc = "returned" /\ EqualLen1D
        /\ Len(labels.vals) >= 1) =>
        /\ Predicted(label_id) = 0 => out[1] = Scalar(Zero)
        /\ Support(label_id) = 0 => out[2] = Scalar(Zero)
        /\ FAdd(out[1].vals[1], out[2].vals[1]) = Zero => out[3] = Scalar(Zero)
        /\ \A c \in 1..3 : ~IsNaN(out[c].vals[1])

\* C6: in mode macro the scorer returns, for precision, recall and f1, the
\* unweighted mean of the per-label values over the distinct values of
\* labels, whatever integers these are.
C6_Macro ==
    (CallReturned /\ average = "macro" /\ EqualLen1D /\ Len(labels.vals) >= 1) =>
        \A c \in 1..3 : out[c] = Scalar(RefMacro(c, LabelsPresent))

\* C7: in modes macro and weighted the scorer agrees with the standard
\* multi-class definitions, taken over the classes that occur, also when a
\* class of 0..K-1 is missing from labels or occurs only in predictions.
C7_Reference ==
    (CallReturned /\ EqualLen1D /\ Len(labels.vals) >= 1) =>
        /\ average = "macro" =>
              \A c \in 1..3 : out[c] = Scalar(RefMacro(c, ClassesPresent))
        /\ average = "weighted" =>
              \A c \in 1..3 : out[c] = Scalar(RefWeighted(c, ClassesPresent))

\* C8: in mode None the scorer returns the per-label vectors: one entry per
\* label, holding that label's calc_prf_count_for_label value.
C8_ModeNone ==
    (CallReturned /\ average = "None" /\ EqualLen1D /\ Len(labels.vals) >= 1) =>
        \A c \in 1..3 :
            /\ out[c].dim = 1
            /\ Len(out[c].vals) = Cardinality(LabelsPresent)
            /\ \A k \in 1..Cardinality(LabelsPresent) :
                  LET v == calc_prf_count_for_label(labels.vals,
                                                    predictions.vals, LabelAt(k))
                  IN  out[c].vals[k] =
                          IF c = 1 THEN v.p ELSE IF c = 2 THEN v.r ELSE v.f1

\* C9: a call with labels or predictions that is not one-dimensional, or
\* with labels and predictions of different lengths, fails with a shape
\* error in every mode and returns no scores.
C9_ShapeError ==
    (called = "__call__" /\ prf_pc \in {"returned", "raised"} /\ ~EqualLen1D
        /\ Len(labels.vals) >= 1 /\ Len(predictions.vals) >= 1) =>
        /\ prf_pc = "raised"
        /\ prf_err \in {"AssertionError", "RuntimeError"}

\* float ==: a nan equals nothing, itself included
FEq(x, y) == ~IsNaN(x) /\ ~IsNaN(y) /\ x = y
\* the number of positions where labels and predictions agree
Agree == Cardinality({j \in Samples : labels.vals[j] = predictions.vals[j]})
MicroReturned == CallReturned /\ average = "micro" /\ EqualLen1D

\* C11 as stated: in mode micro, for any labels and predictions of equal
\* length, precision == recall == f1 == accuracy, the number of agreeing
\* positions divided by the number of samples.
C11_Original ==
    MicroReturned =>
        /\ FEq(out[1].vals[1], out[2].vals[1])
        /\ FEq(out[2].vals[1], out[3].vals[1])
        /\ Len(labels.vals) >= 1
        /\ out[3] = Scalar(Fin(Agree, Len(labels.vals)))

\* C11 amended: in mode micro, for any non-empty labels and predictions of
\* equal length, precision == recall == f1 == accuracy; for empty ones the
\* three returned values are nan, which equals nothing.
C11_MicroIdentity ==
    MicroReturned =>
        IF Len(labels.vals) >= 1
        THEN /\ FEq(out[1].vals[1], out[2].vals[1])
             /\ FEq(out[2].vals[1], out[3].vals[1])
             /\ \A c \in 1..3 : out[c] = Scalar(Fin(Agree, Len(labels.vals)))
        ELSE \A c \in 1..3 : out[c] = Scalar(NaN)

C11_Witness ==
    /\ MicroReturned /\ Len(labels.vals) = 3
    /\ Agree = 2 /\ out[1] = Scalar(Fin(2, 3))

\* -------------------------------------- aggregator: the sweep invariant
\* the groups formed so far: those merged into a row, then the buffer
RECURSIVE Flatten(_)
Flatten(gs) == IF gs = <<>> THEN <<>> ELSE Head(gs) \o Flatten(Tail(gs))
\* the word spans the generator has yielded so far
Consumed == NumWords - Len(token_spans)

\* every index handled so far lies in exactly one group, groups are
\* contiguous runs in increasing order: the groups, laid end to end, are
\* 1, 2, .., i-1
PartitionOrdered ==
    /\ pc = "loop" =>
          /\ Flatten(groups) \o stack = [k \in 1..(i - 1) |-> k]
          /\ Len(result) = Len(groups)
          /\ Len(result) = Consumed - 1
    /\ Returned =>
          /\ Flatten(groups) = [k \in 1..Len(wp_spans) |-> k]
          /\ Len(result) = Len(groups)
\* no group is empty: no emitted one, nor the buffer once a wordpiece is in
\* (stated for calls that have a wordpiece to handle)
GroupsNonEmpty ==
    (pc \in {"loop", "returned"} /\ Len(wp_spans) >= 1) =>
        /\ \A g \in 1..Len(groups) : groups[g] # <<>>
        /\ (pc = "loop" /\ i > 1) => stack # <<>>

\* C12: at every step of the sweep each wordpiece index handled so far is
\* in exactly one group, an emitted one or the buffer; every group is a
\* non-empty contiguous run, the groups are in increasing order, and the
\* rows emitted are one fewer than the word spans consumed; so in a
\* returned result no wordpiece is dropped or used twice.
C12_SweepPartition == PartitionOrdered /\ GroupsNonEmpty

====
